---- MODULE Spec2Model ----
(***************************************************************************)
(* Model of language/bytecode-verifier/src/check_duplication.rs:           *)
(* DuplicationChecker::verify and first_duplicate_element.                 *)
(*                                                                         *)
(* The checker is a pure, read-only function of a CompiledModule.  The     *)
(* state is the module handed to the checker and the VMResult it returned  *)
(* for it.  The first module is drawn from a small set; every step hands   *)
(* the checker the module with one more table entry, field definition or   *)
(* acquires entry, at any position.  The modules are those the checker     *)
(* receives: the handle index of every definition is in range, which the   *)
(* bounds checker establishes before this pass, so struct_handle_at and    *)
(* function_handle_at never fail.                                          *)
(*                                                                         *)
(* Positions reported by the checker are 0-based, as in the source; TLA+   *)
(* sequences are 1-based, so entry i of a table is table[i + 1].  Table    *)
(* lengths stay far below 2^16, so the casts `x as u16` of the totality    *)
(* checks do not truncate.                                                 *)
(***************************************************************************)
EXTENDS Integers, Sequences, FiniteSets, TLC

VARIABLES
  module,    \* the CompiledModule handed to verify
  result,    \* what verify returned for it
  inserted,  \* number of entries inserted since the first module
  keys,      \* the sequence handed to first_duplicate_element on its own
  found      \* what first_duplicate_element returned for keys

vars == <<module, result, inserted, keys, found>>

----------------------------------------------------------------------------
(* Bounds of the model.                                                    *)

\* number of entries (table entries, field definitions, acquires entries)
\* inserted into a module drawn at the start
MaxInserts == 2
\* longest key sequence handed to the scanner on its own
MaxKeys == 4

----------------------------------------------------------------------------
(* Value domains of the table entries.                                     *)

\* Option<T>
None == <<>>
Some(x) == <<x>>

\* VMResult<()>
Ok == <<"Ok">>
Err(e) == <<"Err", e>>

\* no call of the scanner has returned yet
Pending == <<"Pending", "Pending">>

KeyValues == {"a", "b", "c"}

Identifiers == {"a", "b"}
Constants == {[type |-> "U8", data |-> 0], [type |-> "U8", data |-> 1]}
Signatures == {<<"U8">>, <<"U8", "Bool">>}
ModuleHandles == {[address |-> 0, name |-> 0], [address |-> 1, name |-> 0]}
FieldHandles == {[owner |-> 0, field |-> 0], [owner |-> 0, field |-> 1]}
StructInstantiations == {[def |-> 0, type_parameters |-> 0], [def |-> 0, type_parameters |-> 1]}
FunctionInstantiations == {[handle |-> 0, type_parameters |-> 0], [handle |-> 1, type_parameters |-> 0]}
FieldInstantiations == {[handle |-> 0, type_parameters |-> 0], [handle |-> 0, type_parameters |-> 1]}

\* ModuleHandleIndex, IdentifierIndex values in use
ModuleIdx == {0, 1}
NameIdx == {0, 1}
TypeParams == {0, 1}

StructHandles == [module : ModuleIdx, name : NameIdx, type_parameters : TypeParams]
FunctionHandles == [module : ModuleIdx, name : NameIdx, type_parameters : TypeParams]

SeqsUpTo(S, n) == UNION {[1..k -> S] : k \in 0..n}

FieldDefinitions == [name : NameIdx, signature : {0, 1}]
\* StructFieldInformation
Native == <<"Native">>
Declared(fields) == <<"Declared", fields>>
\* a definition enters its table without fields and without acquires
FieldInformations == {Native, Declared(<<>>)}

\* the twelve tables, by accessor name, in the order verify scans them
TableNames ==
  << "identifiers", "constant_pool", "signatures", "module_handles",
     "struct_handles", "function_handles", "field_handles",
     "struct_instantiations", "function_instantiations", "field_instantiations",
     "struct_defs", "function_defs" >>

\* the entries a table may receive, given the module it is in (definitions
\* refer to handles that exist: the bounds checker has run before)
Entries(m, t) ==
  CASE t = "identifiers" -> Identifiers
    [] t = "constant_pool" -> Constants
    [] t = "signatures" -> Signatures
    [] t = "module_handles" -> ModuleHandles
    [] t = "struct_handles" -> StructHandles
    [] t = "function_handles" -> FunctionHandles
    [] t = "field_handles" -> FieldHandles
    [] t = "struct_instantiations" -> StructInstantiations
    [] t = "function_instantiations" -> FunctionInstantiations
    [] t = "field_instantiations" -> FieldInstantiations
    [] t = "struct_defs" ->
         [struct_handle : 0..(Len(m.struct_handles) - 1),
          field_information : FieldInformations]
    [] t = "function_defs" ->
         [function : 0..(Len(m.function_handles) - 1),
          acquires_global_resources : {<<>>}]

EmptyModule(self) ==
  [ identifiers |-> <<>>, constant_pool |-> <<>>, signatures |-> <<>>,
    module_handles |-> <<>>, struct_handles |-> <<>>, function_handles |-> <<>>,
    field_handles |-> <<>>, struct_instantiations |-> <<>>,
    function_instantiations |-> <<>>, field_instantiations |-> <<>>,
    struct_defs |-> <<>>, function_defs |-> <<>>,
    self_handle_idx |-> self ]

----------------------------------------------------------------------------
(* The code.                                                               *)

\* iter().position(pred): the 0-based position of the first element
\* satisfying pred, holds[i] telling whether element i satisfies it
RECURSIVE position_from(_, _)
position_from(holds, i) ==
  IF i > Len(holds) THEN None
  ELSE IF holds[i] THEN Some(i - 1)
  ELSE position_from(holds, i + 1)

position(holds) == position_from(holds, 1)

\* (variant) the set keeps only the key inserted last
RECURSIVE scan_from_forgetting(_, _, _)
scan_from_forgetting(s, i, uniq) ==
  IF i > Len(s) THEN None
  ELSE IF s[i] \in uniq THEN Some(i - 1)
  ELSE scan_from_forgetting(s, i + 1, {s[i]})

\* (variant) positions counted from 1
RECURSIVE scan_from_one_based(_, _, _)
scan_from_one_based(s, i, uniq) ==
  IF i > Len(s) THEN None
  ELSE IF s[i] \in uniq THEN Some(i)
  ELSE scan_from_one_based(s, i + 1, uniq \cup {s[i]})

\* the loop of first_duplicate_element from position i (1-based) on, with
\* uniq the HashSet of the keys inserted so far
RECURSIVE scan_from(_, _, _)
scan_from(s, i, uniq) ==
  IF i > Len(s) THEN None
  ELSE IF s[i] \in uniq THEN Some(i - 1)
  ELSE scan_from(s, i + 1, uniq \cup {s[i]})

\* (variant) the position of the earlier of the two equal keys
first_occurrence_of_duplicate(s) ==
  LET d == scan_from(s, 1, {})
  IN  IF d = None THEN None
      ELSE Some((CHOOSE i \in 1..Len(s) : i <= d[1] /\ s[i] = s[d[1] + 1]) - 1)

first_duplicate_element(s) == scan_from(s, 1, {})

verification_error(kind, idx, status) ==
  [kind |-> kind, idx |-> idx, status |-> status]

struct_handle_at(m, idx) == m.struct_handles[idx + 1]
function_handle_at(m, idx) == m.function_handles[idx + 1]
self_handle_idx(m) == m.self_handle_idx

\* the twelve table scans: Some(violation) or None
ErrIfDup(kind, ks) ==
  LET d == first_duplicate_element(ks)
  IN  IF d # None
      THEN Some(verification_error(kind, d[1], "DUPLICATE_ELEMENT"))
      ELSE None

\* (variant) the whole handle is the key
HandleKeyWithTypeParameters(x) == <<x.module, x.name, x.type_parameters>>

HandleKey(x) == <<x.module, x.name>>
StructDefKey(x) == x.struct_handle
FunctionDefKey(x) == x.function
FieldName(x) == x.name

check_identifiers(m) == ErrIfDup("Identifier", m.identifiers)
check_constant_pool(m) == ErrIfDup("ConstantPool", m.constant_pool)
check_signatures(m) == ErrIfDup("Signature", m.signatures)
check_module_handles(m) == ErrIfDup("ModuleHandle", m.module_handles)
check_struct_handles(m) ==
  ErrIfDup("StructHandle",
           [i \in 1..Len(m.struct_handles) |-> HandleKey(m.struct_handles[i])])
check_function_handles(m) ==
  ErrIfDup("FunctionHandle",
           [i \in 1..Len(m.function_handles) |-> HandleKey(m.function_handles[i])])
check_field_handles(m) == ErrIfDup("FieldHandle", m.field_handles)
check_struct_instantiations(m) == ErrIfDup("StructDefInstantiation", m.struct_instantiations)
check_function_instantiations(m) == ErrIfDup("FunctionInstantiation", m.function_instantiations)
check_field_instantiations(m) == ErrIfDup("FieldInstantiation", m.field_instantiations)
check_struct_defs(m) ==
  ErrIfDup("StructDefinition",
           [i \in 1..Len(m.struct_defs) |-> StructDefKey(m.struct_defs[i])])
check_function_defs(m) ==
  ErrIfDup("FunctionDefinition",
           [i \in 1..Len(m.function_defs) |-> FunctionDefKey(m.function_defs[i])])

\* acquires in function declarations contain unique struct definitions
HasDupAcquires(function_def) ==
  first_duplicate_element(function_def.acquires_global_resources) # None

\* (variant) the position inside the acquires list is reported
check_acquires_list_position(m) ==
  LET p == position([i \in 1..Len(m.function_defs) |-> HasDupAcquires(m.function_defs[i])])
  IN  IF p # None
      THEN Some(verification_error(
                  "FunctionDefinition",
                  first_duplicate_element(
                    m.function_defs[p[1] + 1].acquires_global_resources)[1],
                  "DUPLICATE_ACQUIRES_RESOURCE_ANNOTATION_ERROR"))
      ELSE None

check_acquires(m) ==
  LET p == position([i \in 1..Len(m.function_defs) |-> HasDupAcquires(m.function_defs[i])])
  IN  IF p # None
      THEN Some(verification_error("FunctionDefinition", p[1],
                                   "DUPLICATE_ACQUIRES_RESOURCE_ANNOTATION_ERROR"))
      ELSE None

\* (variant) a native struct definition is checked as one without fields
RECURSIVE check_fields_from_native_checked(_, _)
check_fields_from_native_checked(m, i) ==
  IF i > Len(m.struct_defs) THEN None
  ELSE LET fi == m.struct_defs[i].field_information
           fields == IF fi = Native THEN <<>> ELSE fi[2]
           d == first_duplicate_element([k \in 1..Len(fields) |-> FieldName(fields[k])])
       IN  IF Len(fields) = 0
           THEN Some(verification_error("StructDefinition", i - 1,
                                        "ZERO_SIZED_STRUCT"))
           ELSE IF d # None
           THEN Some(verification_error("FieldDefinition", d[1],
                                        "DUPLICATE_ELEMENT"))
           ELSE check_fields_from_native_checked(m, i + 1)

\* field names in structs must be unique: the loop over struct_defs from
\* definition i (1-based) on
RECURSIVE check_fields_from(_, _)
check_fields_from(m, i) ==
  IF i > Len(m.struct_defs) THEN None
  ELSE LET fi == m.struct_defs[i].field_information
       IN  IF fi = Native THEN check_fields_from(m, i + 1)
           ELSE LET fields == fi[2]
                    d == first_duplicate_element([k \in 1..Len(fields) |-> FieldName(fields[k])])
                IN  IF Len(fields) = 0
                    THEN Some(verification_error("StructDefinition", i - 1,
                                                 "ZERO_SIZED_STRUCT"))
                    ELSE IF d # None
                    THEN Some(verification_error("FieldDefinition", d[1],
                                                 "DUPLICATE_ELEMENT"))
                    ELSE check_fields_from(m, i + 1)

check_fields(m) == check_fields_from(m, 1)

\* (variant) the comparison with the self handle is inverted
check_struct_def_owner_inverted(m) ==
  LET IsSelf(x) == struct_handle_at(m, x.struct_handle).module = self_handle_idx(m)
      p == position([i \in 1..Len(m.struct_defs) |-> IsSelf(m.struct_defs[i])])
  IN  IF p # None
      THEN Some(verification_error("StructDefinition", p[1], "INVALID_MODULE_HANDLE"))
      ELSE None

\* each struct definition is pointing to the self module
check_struct_def_owner(m) ==
  LET NotSelf(x) == struct_handle_at(m, x.struct_handle).module # self_handle_idx(m)
      p == position([i \in 1..Len(m.struct_defs) |-> NotSelf(m.struct_defs[i])])
  IN  IF p # None
      THEN Some(verification_error("StructDefinition", p[1], "INVALID_MODULE_HANDLE"))
      ELSE None

\* each function definition is pointing to the self module
check_function_def_owner(m) ==
  LET NotSelf(x) == function_handle_at(m, x.function).module # self_handle_idx(m)
      p == position([i \in 1..Len(m.function_defs) |-> NotSelf(m.function_defs[i])])
  IN  IF p # None
      THEN Some(verification_error("FunctionDefinition", p[1], "INVALID_MODULE_HANDLE"))
      ELSE None

\* (variant) handles of other modules are required to be implemented too
check_struct_handles_implemented_any_owner(m) ==
  LET implemented_struct_handles ==
        {m.struct_defs[i].struct_handle : i \in 1..Len(m.struct_defs)}
      Unimplemented(y) == y \notin implemented_struct_handles
      \* (0..len).position(..): y is the index i - 1
      p == position([i \in 1..Len(m.struct_handles) |-> Unimplemented(i - 1)])
  IN  IF p # None
      THEN Some(verification_error("StructHandle", p[1], "UNIMPLEMENTED_HANDLE"))
      ELSE None

\* each struct handle in self module is implemented (has a declaration)
check_struct_handles_implemented(m) ==
  LET implemented_struct_handles ==
        {m.struct_defs[i].struct_handle : i \in 1..Len(m.struct_defs)}
      Unimplemented(y) ==
        /\ struct_handle_at(m, y).module = self_handle_idx(m)
        /\ y \notin implemented_struct_handles
      \* (0..len).position(..): y is the index i - 1
      p == position([i \in 1..Len(m.struct_handles) |-> Unimplemented(i - 1)])
  IN  IF p # None
      THEN Some(verification_error("StructHandle", p[1], "UNIMPLEMENTED_HANDLE"))
      ELSE None

\* (variant) the implemented function handles are taken from struct_defs
check_function_handles_implemented_by_structs(m) ==
  LET implemented_function_handles ==
        {m.struct_defs[i].struct_handle : i \in 1..Len(m.struct_defs)}
      Unimplemented(y) ==
        /\ function_handle_at(m, y).module = self_handle_idx(m)
        /\ y \notin implemented_function_handles
      \* (0..len).position(..): y is the index i - 1
      p == position([i \in 1..Len(m.function_handles) |-> Unimplemented(i - 1)])
  IN  IF p # None
      THEN Some(verification_error("FunctionHandle", p[1], "UNIMPLEMENTED_HANDLE"))
      ELSE None

\* each function handle in self module is implemented (has a declaration)
check_function_handles_implemented(m) ==
  LET implemented_function_handles ==
        {m.function_defs[i].function : i \in 1..Len(m.function_defs)}
      Unimplemented(y) ==
        /\ function_handle_at(m, y).module = self_handle_idx(m)
        /\ y \notin implemented_function_handles
      \* (0..len).position(..): y is the index i - 1
      p == position([i \in 1..Len(m.function_handles) |-> Unimplemented(i - 1)])
  IN  IF p # None
      THEN Some(verification_error("FunctionHandle", p[1], "UNIMPLEMENTED_HANDLE"))
      ELSE None

\* (variant) the struct owner check runs before the acquires and field checks
checks_owner_first(m) ==
  << check_identifiers(m), check_constant_pool(m), check_signatures(m),
     check_module_handles(m), check_struct_handles(m), check_function_handles(m),
     check_field_handles(m), check_struct_instantiations(m),
     check_function_instantiations(m), check_field_instantiations(m),
     check_struct_defs(m), check_function_defs(m),
     check_struct_def_owner(m), check_acquires(m), check_fields(m),
     check_function_def_owner(m),
     check_struct_handles_implemented(m), check_function_handles_implemented(m) >>

\* the checks of verify, in the order the function body runs them
checks(m) ==
  << check_identifiers(m), check_constant_pool(m), check_signatures(m),
     check_module_handles(m), check_struct_handles(m), check_function_handles(m),
     check_field_handles(m), check_struct_instantiations(m),
     check_function_instantiations(m), check_field_instantiations(m),
     check_struct_defs(m), check_function_defs(m),
     check_acquires(m), check_fields(m),
     check_struct_def_owner(m), check_function_def_owner(m),
     check_struct_handles_implemented(m), check_function_handles_implemented(m) >>

\* the early returns: the first check that finds a violation returns it
RECURSIVE first_err(_, _)
first_err(cs, i) ==
  IF i > Len(cs) THEN Ok
  ELSE IF cs[i] # None THEN Err(cs[i][1])
  ELSE first_err(cs, i + 1)

verify(m) == first_err(checks(m), 1)

----------------------------------------------------------------------------
(* The state machine: modules are built by inserting entries, and verify   *)
(* runs on every module built.                                             *)

InsertAt(s, j, e) == SubSeq(s, 1, j - 1) \o <<e>> \o SubSeq(s, j, Len(s))

\* a well-formed module with one struct and two functions that acquire it,
\* and something in every table
SmallModule(self) ==
  [ identifiers |-> <<"a", "b">>,
    constant_pool |-> <<[type |-> "U8", data |-> 0]>>,
    signatures |-> <<<<"U8">>>>,
    module_handles |-> <<[address |-> 0, name |-> 0]>>,
    struct_handles |-> <<[module |-> self, name |-> 0, type_parameters |-> 0]>>,
    function_handles |-> <<[module |-> self, name |-> 0, type_parameters |-> 0],
                           [module |-> self, name |-> 1, type_parameters |-> 0]>>,
    field_handles |-> <<[owner |-> 0, field |-> 0]>>,
    struct_instantiations |-> <<[def |-> 0, type_parameters |-> 0]>>,
    function_instantiations |-> <<[handle |-> 0, type_parameters |-> 0]>>,
    field_instantiations |-> <<[handle |-> 0, type_parameters |-> 0]>>,
    struct_defs |-> <<[struct_handle |-> 0,
                       field_information |-> Declared(<<[name |-> 0, signature |-> 0]>>)]>>,
    function_defs |-> <<[function |-> 0, acquires_global_resources |-> <<0>>],
                        [function |-> 1, acquires_global_resources |-> <<0>>]>>,
    self_handle_idx |-> self ]

\* a module with one native struct and nothing else
NativeModule(self) ==
  [EmptyModule(self) EXCEPT
     !.struct_handles = <<[module |-> self, name |-> 0, type_parameters |-> 0]>>,
     !.struct_defs = <<[struct_handle |-> 0, field_information |-> Native]>>]

\* the modules the checker is first run on
Modules ==
  {EmptyModule(self) : self \in ModuleIdx} \cup {NativeModule(0), SmallModule(0)}

Init ==
  /\ module \in Modules
  /\ result = verify(module)
  /\ inserted = 0
  /\ keys = <<>>
  /\ found = Pending

\* a module with one more entry e at 1-based position j of table t is
\* handed to verify
Insert(t, j, e) ==
  /\ inserted < MaxInserts
  /\ module' = [module EXCEPT ![t] = InsertAt(@, j, e)]
  /\ result' = verify(module')
  /\ inserted' = inserted + 1
  /\ UNCHANGED <<keys, found>>

InsertEntry ==
  \E k \in 1..Len(TableNames) :
    LET t == TableNames[k] IN
    \E j \in 1..(Len(module[t]) + 1) :
      \E e \in Entries(module, t) : Insert(t, j, e)

\* the same with one more field definition f at position j of the fields of
\* struct definition d (1-based), which declares its fields
InsertField ==
  \E d \in 1..Len(module.struct_defs) :
    /\ module.struct_defs[d].field_information # Native
    /\ \E j \in 1..(Len(module.struct_defs[d].field_information[2]) + 1) :
         \E f \in FieldDefinitions :
           /\ inserted < MaxInserts
           /\ module' = [module EXCEPT
                           !.struct_defs[d].field_information[2] = InsertAt(@, j, f)]
           /\ result' = verify(module')
           /\ inserted' = inserted + 1
           /\ UNCHANGED <<keys, found>>

\* the same with one more acquires entry, a struct definition of the module,
\* at position j of the acquires of function definition d (1-based)
InsertAcquires ==
  \E d \in 1..Len(module.function_defs) :
    \E j \in 1..(Len(module.function_defs[d].acquires_global_resources) + 1) :
      \E a \in 0..(Len(module.struct_defs) - 1) :
        /\ inserted < MaxInserts
        /\ module' = [module EXCEPT
                        !.function_defs[d].acquires_global_resources = InsertAt(@, j, a)]
        /\ result' = verify(module')
        /\ inserted' = inserted + 1
        /\ UNCHANGED <<keys, found>>

Next == InsertEntry \/ InsertField \/ InsertAcquires

Spec == Init /\ [][Next]_vars

\* the scanner on its own: a key sequence is drawn and scanned once
InitScan ==
  /\ module = EmptyModule(0)
  /\ result = verify(module)
  /\ inserted = 0
  /\ keys \in SeqsUpTo(KeyValues, MaxKeys)
  /\ found = Pending

Scan ==
  /\ found = Pending
  /\ found' = first_duplicate_element(keys)
  /\ UNCHANGED <<module, result, inserted, keys>>

NextScan == Scan

SpecScan == InitScan /\ [][NextScan]_vars

----------------------------------------------------------------------------
(* The vocabulary of the properties: the data model's uniqueness keys and  *)
(* the condition each of the eighteen checks of verify rejects, stated on  *)
(* the module alone.                                                       *)

\* IndexKind of each of the twelve tables, in the order of TableNames
TableKinds ==
  << "Identifier", "ConstantPool", "Signature", "ModuleHandle",
     "StructHandle", "FunctionHandle", "FieldHandle",
     "StructDefInstantiation", "FunctionInstantiation", "FieldInstantiation",
     "StructDefinition", "FunctionDefinition" >>

NumTables == Len(TableNames)
NumChecks == NumTables + 6

\* the uniqueness key of an entry e of table t
UniqKey(t, e) ==
  CASE t \in {"struct_handles", "function_handles"} -> <<e.module, e.name>>
    [] t = "struct_defs" -> e.struct_handle
    [] t = "function_defs" -> e.function
    [] OTHER -> e

KeysOf(m, t) == [i \in 1..Len(m[t]) |-> UniqKey(t, m[t][i])]

HasDup(s) == \E i, j \in 1..Len(s) : i < j /\ s[i] = s[j]

Min(S) == CHOOSE x \in S : \A y \in S : x <= y

\* 0-based positions of s that hold a key also held at a smaller position
Repeats(s) == {j - 1 : j \in {k \in 1..Len(s) : \E i \in 1..(k - 1) : s[i] = s[k]}}

FieldNames(struct_def) ==
  [i \in 1..Len(struct_def.field_information[2]) |->
     struct_def.field_information[2][i].name]

IsNative(struct_def) == struct_def.field_information[1] = "Native"

\* 1-based positions of the struct definitions the field check rejects
BadFieldDefs(m) ==
  {i \in 1..Len(m.struct_defs) :
     /\ ~IsNative(m.struct_defs[i])
     /\ \/ Len(m.struct_defs[i].field_information[2]) = 0
        \/ HasDup(FieldNames(m.struct_defs[i]))}

\* 1-based positions of the function definitions with a repeated acquires entry
BadAcquiresDefs(m) ==
  {i \in 1..Len(m.function_defs) : HasDup(m.function_defs[i].acquires_global_resources)}

\* 1-based positions of the definitions whose handle is not owned by self
ForeignStructDefs(m) ==
  {i \in 1..Len(m.struct_defs) :
     m.struct_handles[m.struct_defs[i].struct_handle + 1].module # m.self_handle_idx}

ForeignFunctionDefs(m) ==
  {i \in 1..Len(m.function_defs) :
     m.function_handles[m.function_defs[i].function + 1].module # m.self_handle_idx}

StructDefsOf(m, h) == {i \in 1..Len(m.struct_defs) : m.struct_defs[i].struct_handle = h}
FunctionDefsOf(m, h) == {i \in 1..Len(m.function_defs) : m.function_defs[i].function = h}

\* 0-based positions of the self-owned handles no definition references
UndefinedStructHandles(m) ==
  {h \in 0..(Len(m.struct_handles) - 1) :
     /\ m.struct_handles[h + 1].module = m.self_handle_idx
     /\ StructDefsOf(m, h) = {}}

UndefinedFunctionHandles(m) ==
  {h \in 0..(Len(m.function_handles) - 1) :
     /\ m.function_handles[h + 1].module = m.self_handle_idx
     /\ FunctionDefsOf(m, h) = {}}

\* module m breaks the rule that check k (1..18, in verify's order) enforces
Violates(k, m) ==
  CASE k <= NumTables -> HasDup(KeysOf(m, TableNames[k]))
    [] k = 13 -> BadAcquiresDefs(m) # {}
    [] k = 14 -> BadFieldDefs(m) # {}
    [] k = 15 -> ForeignStructDefs(m) # {}
    [] k = 16 -> ForeignFunctionDefs(m) # {}
    [] k = 17 -> UndefinedStructHandles(m) # {}
    [] k = 18 -> UndefinedFunctionHandles(m) # {}

PassesUpTo(k, m) == \A c \in 1..k : ~Violates(c, m)

\* the check a violation comes from
CheckOf(e) ==
  CASE e.status = "DUPLICATE_ELEMENT" /\ e.kind = "FieldDefinition" -> 14
    [] e.status = "DUPLICATE_ELEMENT" /\ e.kind # "FieldDefinition" ->
         CHOOSE k \in 1..NumTables : TableKinds[k] = e.kind
    [] e.status = "DUPLICATE_ACQUIRES_RESOURCE_ANNOTATION_ERROR" -> 13
    [] e.status = "ZERO_SIZED_STRUCT" -> 14
    [] e.status = "INVALID_MODULE_HANDLE" /\ e.kind = "StructDefinition" -> 15
    [] e.status = "INVALID_MODULE_HANDLE" /\ e.kind # "StructDefinition" -> 16
    [] e.status = "UNIMPLEMENTED_HANDLE" /\ e.kind = "StructHandle" -> 17
    [] e.status = "UNIMPLEMENTED_HANDLE" /\ e.kind # "StructHandle" -> 18

Rejected == result # Ok
Violation == result[2]

----------------------------------------------------------------------------
(* C1 *)

\* (1) no table has two entries equal under its uniqueness key
NoDuplicateEntries(m) == \A k \in 1..NumTables : ~HasDup(KeysOf(m, TableNames[k]))

\* (2) every self-owned handle has exactly one definition and every
\* definition's handle is owned by the self handle
SelfHandlesDefinedOnce(m) ==
  /\ \A h \in 0..(Len(m.struct_handles) - 1) :
       m.struct_handles[h + 1].module = m.self_handle_idx
         => Cardinality(StructDefsOf(m, h)) = 1
  /\ \A h \in 0..(Len(m.function_handles) - 1) :
       m.function_handles[h + 1].module = m.self_handle_idx
         => Cardinality(FunctionDefsOf(m, h)) = 1
  /\ ForeignStructDefs(m) = {}
  /\ ForeignFunctionDefs(m) = {}

\* (3) every non-native struct definition has a field and distinct field names
FieldsWellFormed(m) == BadFieldDefs(m) = {}

\* (4) no acquires list has a repeated entry
AcquiresWellFormed(m) == BadAcquiresDefs(m) = {}

\* C1: verify returns Ok exactly when the four invariants of the data model
\* hold of the module.
OkIffInvariants ==
  (result = Ok) <=>
    /\ NoDuplicateEntries(module)
    /\ SelfHandlesDefinedOnce(module)
    /\ FieldsWellFormed(module)
    /\ AcquiresWellFormed(module)

\* a module with two structs and their two definitions is accepted
OkIffInvariantsWitness ==
  /\ result = Ok
  /\ Len(module.struct_defs) = 2
  /\ Len(module.function_defs) = 2
  /\ inserted = 2

----------------------------------------------------------------------------
(* C2 *)

\* C2: a rejected module is rejected with the violation of the earliest
\* check, in verify's fixed order, whose rule the module breaks; every check
\* before it passes.
FirstFailingCheckWins ==
  Rejected =>
    /\ Violates(CheckOf(Violation), module)
    /\ PassesUpTo(CheckOf(Violation) - 1, module)

\* a module breaking the rules of two checks, rejected for the earlier one
FirstFailingCheckWinsWitness ==
  /\ Rejected
  /\ \E k \in 1..NumChecks : k > CheckOf(Violation) /\ Violates(k, module)
  /\ CheckOf(Violation) <= 4

----------------------------------------------------------------------------
(* C3 *)

\* C3: the scanner returns the smallest position holding a key that an
\* earlier position holds, and None exactly when the keys are pairwise
\* distinct.
ScannerFindsFirstRepeat ==
  found # Pending =>
    /\ (found = None) <=> ~HasDup(keys)
    /\ found # None => found = Some(Min(Repeats(keys)))

\* two values repeat, and the position returned is not that of the repeat of
\* the first value of the sequence
ScannerFindsFirstRepeatWitness ==
  /\ found # Pending
  /\ found # None
  /\ Cardinality(Repeats(keys)) >= 2
  /\ keys[found[1] + 1] # keys[1]

----------------------------------------------------------------------------
(* C4 *)

\* the step inserts one entry at 1-based position j of table t and changes
\* nothing else of the module
InsertedAt(t, j) ==
  /\ Len(module'[t]) = Len(module[t]) + 1
  /\ j \in 1..Len(module'[t])
  /\ module' = [module EXCEPT ![t] = InsertAt(@, j, module'[t][j])]

\* the step inserts at position j of table t an entry equal, under the
\* table's key, to the entry that was at position i
InsertedDuplicate(t, i, j) ==
  /\ InsertedAt(t, j)
  /\ i \in 1..Len(module[t])
  /\ UniqKey(t, module'[t][j]) = UniqKey(t, module[t][i])

OtherTablesValid(m, k) ==
  \A c \in 1..NumTables : c # k => ~HasDup(KeysOf(m, TableNames[c]))

\* C4 as stated: wherever the duplicate is inserted (at a position that the
\* two modules determine), the other tables being valid, the violation is a
\* DuplicateElement of that table at the new entry's position.
DuplicateReportedAtNewEntry ==
  [][\A k \in 1..NumTables :
       \A i \in 1..Len(module[TableNames[k]]) :
         \A j \in 1..Len(module'[TableNames[k]]) :
           ( /\ InsertedDuplicate(TableNames[k], i, j)
             /\ \A j2 \in 1..Len(module'[TableNames[k]]) :
                  InsertedAt(TableNames[k], j2) => j2 = j
             /\ OtherTablesValid(module', k) )
             => result' = Err(verification_error(TableKinds[k], j - 1,
                                                 "DUPLICATE_ELEMENT"))]_vars

\* C4 (amended): when no table of the module held a duplicate before, the
\* violation is a DuplicateElement of that table at the position of the later
\* of the two equal entries: the new entry's position if it was inserted
\* after the existing one, the existing entry's new position otherwise.
DuplicateReportedAtLaterEntry ==
  [][\A k \in 1..NumTables :
       \A i \in 1..Len(module[TableNames[k]]) :
         \A j \in 1..Len(module'[TableNames[k]]) :
           (InsertedDuplicate(TableNames[k], i, j) /\ NoDuplicateEntries(module))
             => result' = Err(verification_error(TableKinds[k],
                                                 IF j > i THEN j - 1 ELSE i,
                                                 "DUPLICATE_ELEMENT"))]_vars

\* a table of three entries whose last repeats its first, rejected at the
\* last position, all other tables being valid
DuplicateReportedAtLaterEntryWitness ==
  /\ inserted >= 1
  /\ \E k \in 1..NumTables :
       /\ Len(module[TableNames[k]]) = 3
       /\ UniqKey(TableNames[k], module[TableNames[k]][3])
            = UniqKey(TableNames[k], module[TableNames[k]][1])
       /\ ~HasDup(SubSeq(KeysOf(module, TableNames[k]), 1, 2))
       /\ OtherTablesValid(module, k)
       /\ result = Err(verification_error(TableKinds[k], 2, "DUPLICATE_ELEMENT"))

----------------------------------------------------------------------------
(* C5 *)

IsViolation(kind, status) ==
  /\ Rejected
  /\ Violation.kind = kind
  /\ Violation.status = status

\* C5 as stated: a module with a definition whose handle is not owned by the
\* self handle is always rejected as InvalidModuleOwner, for the kind of
\* that definition.
ForeignDefinitionAlwaysInvalidOwner ==
  /\ ForeignStructDefs(module) # {}
       => IsViolation("StructDefinition", "INVALID_MODULE_HANDLE")
  /\ ForeignFunctionDefs(module) # {}
       => IsViolation("FunctionDefinition", "INVALID_MODULE_HANDLE")

\* C5 (amended): such a module is always rejected; the violation is
\* InvalidModuleOwner at the first such struct definition when every check
\* before the struct owner check passes, and at the first such function
\* definition when every check before the function owner check passes.
ForeignDefinitionRejected ==
  /\ (ForeignStructDefs(module) # {} \/ ForeignFunctionDefs(module) # {}) => Rejected
  /\ (ForeignStructDefs(module) # {} /\ PassesUpTo(14, module))
       => result = Err(verification_error("StructDefinition",
                                          Min(ForeignStructDefs(module)) - 1,
                                          "INVALID_MODULE_HANDLE"))
  /\ (ForeignFunctionDefs(module) # {} /\ PassesUpTo(15, module))
       => result = Err(verification_error("FunctionDefinition",
                                          Min(ForeignFunctionDefs(module)) - 1,
                                          "INVALID_MODULE_HANDLE"))

\* the second struct definition is the first one with a foreign handle
ForeignDefinitionRejectedWitness ==
  /\ Min(ForeignStructDefs(module) \cup {9}) = 2
  /\ result = Err(verification_error("StructDefinition", 1, "INVALID_MODULE_HANDLE"))

----------------------------------------------------------------------------
(* C6 *)

\* the step adds one struct (function) definition referencing handle h and
\* changes nothing else
AddedStructDef(h) ==
  \E j \in 1..Len(module'.struct_defs) :
    InsertedAt("struct_defs", j) /\ module'.struct_defs[j].struct_handle = h

AddedFunctionDef(h) ==
  \E j \in 1..Len(module'.function_defs) :
    InsertedAt("function_defs", j) /\ module'.function_defs[j].function = h

\* C6 as stated, on a module: every self-owned handle without a definition
\* is the one reported.
UndefinedHandleReported ==
  /\ \A h \in UndefinedStructHandles(module) :
       result = Err(verification_error("StructHandle", h, "UNIMPLEMENTED_HANDLE"))
  /\ \A h \in UndefinedFunctionHandles(module) :
       result = Err(verification_error("FunctionHandle", h, "UNIMPLEMENTED_HANDLE"))

\* C6 as stated, on a step: one definition added for such a handle makes the
\* module pass the totality check of that kind.
DefinitionAddedPasses ==
  /\ \A h \in UndefinedStructHandles(module) :
       AddedStructDef(h) =>
         /\ ~Violates(17, module')
         /\ ~(Rejected' /\ Violation'.kind = "StructHandle"
                /\ Violation'.status = "UNIMPLEMENTED_HANDLE")
  /\ \A h \in UndefinedFunctionHandles(module) :
       AddedFunctionDef(h) =>
         /\ ~Violates(18, module')
         /\ ~(Rejected' /\ Violation'.kind = "FunctionHandle"
                /\ Violation'.status = "UNIMPLEMENTED_HANDLE")

UndefinedHandleAlwaysReported ==
  [](UndefinedHandleReported) /\ [][DefinitionAddedPasses]_vars

\* C6 (amended), on a module: the first self-owned handle without a
\* definition is reported when every earlier check passes.
FirstUndefinedHandleReported ==
  /\ (UndefinedStructHandles(module) # {} /\ PassesUpTo(16, module))
       => result = Err(verification_error("StructHandle",
                                          Min(UndefinedStructHandles(module)),
                                          "UNIMPLEMENTED_HANDLE"))
  /\ (UndefinedFunctionHandles(module) # {} /\ PassesUpTo(17, module))
       => result = Err(verification_error("FunctionHandle",
                                          Min(UndefinedFunctionHandles(module)),
                                          "UNIMPLEMENTED_HANDLE"))

\* C6 (amended), on a step: one definition added for such a handle h makes
\* the totality check of that kind no longer report h, and pass when h was
\* the only such handle.
DefinitionAddedPassesForHandle ==
  /\ \A h \in UndefinedStructHandles(module) :
       AddedStructDef(h) =>
         /\ result' # Err(verification_error("StructHandle", h, "UNIMPLEMENTED_HANDLE"))
         /\ UndefinedStructHandles(module) = {h} =>
              ~(Rejected' /\ Violation'.kind = "StructHandle"
                  /\ Violation'.status = "UNIMPLEMENTED_HANDLE")
  /\ \A h \in UndefinedFunctionHandles(module) :
       AddedFunctionDef(h) =>
         /\ result' # Err(verification_error("FunctionHandle", h, "UNIMPLEMENTED_HANDLE"))
         /\ UndefinedFunctionHandles(module) = {h} =>
              ~(Rejected' /\ Violation'.kind = "FunctionHandle"
                  /\ Violation'.status = "UNIMPLEMENTED_HANDLE")

FirstUndefinedHandleReportedThenDefined ==
  [](FirstUndefinedHandleReported) /\ [][DefinitionAddedPassesForHandle]_vars

\* a module accepted once the definition of its second struct handle, which
\* was reported before, has been added
FirstUndefinedHandleWitness ==
  /\ inserted = 2
  /\ result = Ok
  /\ Len(module.struct_handles) = 2
  /\ Len(module.struct_defs) = 2
  /\ Len(module.function_defs) = 2

----------------------------------------------------------------------------
(* C7 *)

\* C7: once the table scans and the acquires check pass, the first
\* non-native struct definition with no field or with a repeated field name
\* decides the result: ZeroSizedStruct at the definition's position, or
\* DuplicateElement of FieldDefinition at the repeated field's position
\* within the struct; without such a definition the field check rejects
\* nothing, and a native definition is never a ZeroSizedStruct.
FieldRules ==
  /\ IsViolation("StructDefinition", "ZERO_SIZED_STRUCT")
       => ~IsNative(module.struct_defs[Violation.idx + 1])
  /\ PassesUpTo(13, module) =>
       IF BadFieldDefs(module) = {}
       THEN ~(Rejected /\ CheckOf(Violation) = 14)
       ELSE LET i == Min(BadFieldDefs(module))
            IN  IF Len(module.struct_defs[i].field_information[2]) = 0
                THEN result = Err(verification_error("StructDefinition", i - 1,
                                                     "ZERO_SIZED_STRUCT"))
                ELSE result = Err(verification_error(
                                    "FieldDefinition",
                                    Min(Repeats(FieldNames(module.struct_defs[i]))),
                                    "DUPLICATE_ELEMENT"))

\* a native definition comes first and is skipped; the second definition
\* declares no field and is the one rejected
FieldRulesWitness ==
  /\ Len(module.struct_defs) = 2
  /\ IsNative(module.struct_defs[1])
  /\ result = Err(verification_error("StructDefinition", 1, "ZERO_SIZED_STRUCT"))

----------------------------------------------------------------------------
(* C8 *)

\* C8 as stated: acquires lists are compared within one function only, and
\* a module with a function definition that repeats an acquires entry is
\* rejected as DuplicateAcquiresAnnotation at the first such definition.
RepeatedAcquiresAlwaysReported ==
  /\ BadAcquiresDefs(module) = {}
       => ~IsViolation("FunctionDefinition",
                       "DUPLICATE_ACQUIRES_RESOURCE_ANNOTATION_ERROR")
  /\ BadAcquiresDefs(module) # {}
       => result = Err(verification_error(
                         "FunctionDefinition", Min(BadAcquiresDefs(module)) - 1,
                         "DUPLICATE_ACQUIRES_RESOURCE_ANNOTATION_ERROR"))

\* C8 (amended): the same, the rejection being DuplicateAcquiresAnnotation
\* when the twelve table scans pass.
RepeatedAcquiresReported ==
  /\ BadAcquiresDefs(module) = {}
       => ~IsViolation("FunctionDefinition",
                       "DUPLICATE_ACQUIRES_RESOURCE_ANNOTATION_ERROR")
  /\ (BadAcquiresDefs(module) # {} /\ PassesUpTo(NumTables, module))
       => result = Err(verification_error(
                         "FunctionDefinition", Min(BadAcquiresDefs(module)) - 1,
                         "DUPLICATE_ACQUIRES_RESOURCE_ANNOTATION_ERROR"))

\* two function definitions acquire the same struct definition; the second
\* one names it twice and is the one reported
RepeatedAcquiresReportedWitness ==
  /\ Len(module.function_defs) = 2
  /\ module.function_defs[1].acquires_global_resources = <<0>>
  /\ module.function_defs[2].acquires_global_resources = <<0, 0>>
  /\ result = Err(verification_error(
                    "FunctionDefinition", 1,
                    "DUPLICATE_ACQUIRES_RESOURCE_ANNOTATION_ERROR"))

----------------------------------------------------------------------------
(* C9 *)

SameOwnerAndName(x, y) == x.module = y.module /\ x.name = y.name

\* a DuplicateElement of a handle table names a handle with the owner and
\* the name of an earlier handle
ReportedHandleRepeatsOwnerAndName(t, kind) ==
  IsViolation(kind, "DUPLICATE_ELEMENT") =>
    \E i \in 1..Violation.idx :
      SameOwnerAndName(module[t][i], module[t][Violation.idx + 1])

\* C9 as stated: two handles with the same owner and name and different
\* metadata are reported as DuplicateElement at the later one's position;
\* handles that differ in owner or name are never reported as duplicates.
SameOwnerAndNameAlwaysReported ==
  /\ \A i, j \in 1..Len(module.struct_handles) :
       ( /\ i < j
         /\ SameOwnerAndName(module.struct_handles[i], module.struct_handles[j])
         /\ module.struct_handles[i] # module.struct_handles[j] )
       => result = Err(verification_error("StructHandle", j - 1, "DUPLICATE_ELEMENT"))
  /\ \A i, j \in 1..Len(module.function_handles) :
       ( /\ i < j
         /\ SameOwnerAndName(module.function_handles[i], module.function_handles[j])
         /\ module.function_handles[i] # module.function_handles[j] )
       => result = Err(verification_error("FunctionHandle", j - 1, "DUPLICATE_ELEMENT"))
  /\ ReportedHandleRepeatsOwnerAndName("struct_handles", "StructHandle")
  /\ ReportedHandleRepeatsOwnerAndName("function_handles", "FunctionHandle")

\* C9 (amended): they are reported at the later one's position when every
\* earlier table scan passes and no earlier position of the table repeats a
\* key; handles that differ in owner or name are never reported as
\* duplicates.
SameOwnerAndNameReported ==
  /\ \A i, j \in 1..Len(module.struct_handles) :
       ( /\ i < j
         /\ SameOwnerAndName(module.struct_handles[i], module.struct_handles[j])
         /\ module.struct_handles[i] # module.struct_handles[j]
         /\ PassesUpTo(4, module)
         /\ j - 1 = Min(Repeats(KeysOf(module, "struct_handles"))) )
       => result = Err(verification_error("StructHandle", j - 1, "DUPLICATE_ELEMENT"))
  /\ \A i, j \in 1..Len(module.function_handles) :
       ( /\ i < j
         /\ SameOwnerAndName(module.function_handles[i], module.function_handles[j])
         /\ module.function_handles[i] # module.function_handles[j]
         /\ PassesUpTo(5, module)
         /\ j - 1 = Min(Repeats(KeysOf(module, "function_handles"))) )
       => result = Err(verification_error("FunctionHandle", j - 1, "DUPLICATE_ELEMENT"))
  /\ ReportedHandleRepeatsOwnerAndName("struct_handles", "StructHandle")
  /\ ReportedHandleRepeatsOwnerAndName("function_handles", "FunctionHandle")

\* the third function handle has the owner and name of the first and other
\* metadata, and is reported
SameOwnerAndNameReportedWitness ==
  /\ Len(module.function_handles) = 3
  /\ SameOwnerAndName(module.function_handles[1], module.function_handles[3])
  /\ module.function_handles[1].type_parameters # module.function_handles[3].type_parameters
  /\ result = Err(verification_error("FunctionHandle", 2, "DUPLICATE_ELEMENT"))

----------------------------------------------------------------------------
(* C10 *)

TableOfKind(kind) == TableNames[CHOOSE k \in 1..NumTables : TableKinds[k] = kind]

\* 1-based positions of the struct definitions with a repeated field name
DupFieldDefs(m) ==
  {i \in 1..Len(m.struct_defs) :
     ~IsNative(m.struct_defs[i]) /\ HasDup(FieldNames(m.struct_defs[i]))}

\* C10: the index of a violation is a position of the table its kind names
\* (for FieldDefinition, of the fields of the first struct definition with a
\* repeated field name), and the index of a DuplicateElement is at least 1
\* with an equal key at a smaller position.
IndexIsValid ==
  Rejected =>
    LET e == Violation IN
    /\ e.idx >= 0
    /\ e.kind # "FieldDefinition" => e.idx < Len(module[TableOfKind(e.kind)])
    /\ e.kind = "FieldDefinition" =>
         /\ DupFieldDefs(module) # {}
         /\ e.idx < Len(FieldNames(module.struct_defs[Min(DupFieldDefs(module))]))
    /\ e.status = "DUPLICATE_ELEMENT" =>
         /\ e.idx >= 1
         /\ LET ks == IF e.kind = "FieldDefinition"
                      THEN FieldNames(module.struct_defs[Min(DupFieldDefs(module))])
                      ELSE KeysOf(module, TableOfKind(e.kind))
            IN  \E i \in 1..e.idx : ks[i] = ks[e.idx + 1]

\* a repeated field name reported at the last of the three fields of a
\* struct definition
IndexIsValidWitness ==
  /\ IsViolation("FieldDefinition", "DUPLICATE_ELEMENT")
  /\ Violation.idx = 2
  /\ Len(FieldNames(module.struct_defs[Min(DupFieldDefs(module))])) = 3

====
